---------------------------- MODULE Spec2Model ----------------------------
(***************************************************************************)
(* Model of MigrationService (src/src/services/migration.service.ts):     *)
(* the migrate dispatcher, executeMigration (up / down / backup),         *)
(* sortFiles and backupMongoDb.                                           *)
(*                                                                         *)
(* A string is a sequence of one-character strings, so that split, join,  *)
(* includes, replace and the comparison of strings are computed as the    *)
(* code computes them.                                                     *)
(***************************************************************************)
EXTENDS Integers, Sequences, FiniteSets

VARIABLES
    dirExists,  \* whether rawMigrationDir (<root>/src/migrations) exists
    catalog,    \* the names readdir finds in rawMigrationDir
    ledger,     \* the Migrations collection: the filename of each entry, oldest first
    inv,        \* inv[p]: the invocation of migrate() that process p runs or ran last
    stamp       \* a call of appendTimestampToFilename: its arguments, the local
                \* time and what it returned

vars == <<dirExists, catalog, ledger, inv, stamp>>

-----------------------------------------------------------------------------
(* Bounds *)

\* the largest number of names in the discovery folder at the start
MaxFiles == 3
Procs == {1, 2}

-----------------------------------------------------------------------------
(* Strings *)

\* The characters that occur, in ascending order of their UTF-16 code unit.
Chars ==
    << " ", "-", ".", "0", "1", "2", "3", "4", "5", "6", "7", "8", "9", ":",
       "A", "B", "C", "D", "E", "F", "G", "H", "I", "J", "K", "L", "M",
       "N", "O", "P", "Q", "R", "S", "T", "U", "V", "W", "X", "Y", "Z",
       "_",
       "a", "b", "c", "d", "e", "f", "g", "h", "i", "j", "k", "l", "m",
       "n", "o", "p", "q", "r", "s", "t", "u", "v", "w", "x", "y", "z" >>

\* The rank of a character in the order of the code units.
Code(c) == CHOOSE i \in 1..Len(Chars) : Chars[i] = c

\* s1 < s2 on strings: the first differing code unit decides, a proper
\* prefix is smaller.
RECURSIVE StrLess(_, _)
StrLess(s1, s2) ==
    IF s2 = <<>> THEN FALSE
    ELSE IF s1 = <<>> THEN TRUE
    ELSE IF Head(s1) = Head(s2) THEN StrLess(Tail(s1), Tail(s2))
    ELSE Code(Head(s1)) < Code(Head(s2))

\* s.split(sep) for a one-character separator: the pieces between the
\* separators, one more than there are separators.
RECURSIVE Split(_, _)
Split(s, sep) ==
    IF \A k \in 1..Len(s) : s[k] # sep THEN <<s>>
    ELSE LET k == CHOOSE j \in 1..Len(s) :
                      s[j] = sep /\ \A m \in 1..(j - 1) : s[m] # sep
         IN  <<SubSeq(s, 1, k - 1)>> \o Split(SubSeq(s, k + 1, Len(s)), sep)

\* parts.join(sep)
RECURSIVE Join(_, _)
Join(parts, sep) ==
    IF parts = <<>> THEN <<>>
    ELSE IF Len(parts) = 1 THEN parts[1]
    ELSE parts[1] \o <<sep>> \o Join(Tail(parts), sep)

\* file.includes(token)
Includes(file, token) ==
    \E k \in 0..(Len(file) - Len(token)) :
        SubSeq(file, k + 1, k + Len(token)) = token

\* The set of the elements of a sequence.
Range(s) == {s[k] : k \in 1..Len(s)}

-----------------------------------------------------------------------------
(* Inputs: the names found in the discovery folder and the command line *)

\* "b_1.ts"
F_b1 == << "b", "_", "1", ".", "t", "s" >>
\* "a_2.ts": its name sorts before "b_1.ts", its key after
F_a2 == << "a", "_", "2", ".", "t", "s" >>
\* "c_1.ts": the same key as "b_1.ts"
F_c1 == << "c", "_", "1", ".", "t", "s" >>
\* "d": no underscore and no extension
F_d == << "d" >>

FileUniverse == {F_b1, F_a2, F_c1, F_d}

\* "z_1.ts": a file migrated long ago, whose source is no longer in the folder
F_z1 == << "z", "_", "1", ".", "t", "s" >>

\* args[3]: missing, "test", "backup:true", "_1"
A_none == << >>
A_test == << "t", "e", "s", "t" >>
A_backup == << "b", "a", "c", "k", "u", "p", ":", "t", "r", "u", "e" >>
A_1 == << "_", "1" >>

Args3 == {A_none, A_test, A_backup, A_1}

\* The names given to create: none, "_1"
Names == {A_none, A_1}

\* args[2]: "" stands for a missing action, "status" for an unknown one
Args2 == {"create", "up", "down", "backup", "status", ""}

\* What the execution folder holds for a name when it is resolved:
\* no module, a module without the transform, a module with it.
Modules == {"absent", "noTransform", "transform"}

\* How the dump process ends: 'error' (it could not be launched), or 'close'
\* with its exit code.
DumpEvents == {"error", "close0", "close1", "close127"}

-----------------------------------------------------------------------------
(* Pure parts of executeMigration and sortFiles *)

\* Mutant of MigratedFilenames: the newest entry is left out.
MigratedFilenames_dropsLast(migratedFilesFromDb) ==
    [k \in 1..(Len(migratedFilesFromDb) - 1) |-> migratedFilesFromDb[k].filename]

\* migratedFilesFromDb.map(f => migratedFilenames.push(f?.filename))
MigratedFilenames(migratedFilesFromDb) ==
    [k \in 1..Len(migratedFilesFromDb) |-> migratedFilesFromDb[k].filename]

\* Mutant of ToMigrateFiles: nothing is filtered out.
ToMigrateFiles_keepsAll(files, migratedFilenames) == files

\* files.filter(file => migratedFilenames.indexOf(file) === -1)
ToMigrateFiles(files, migratedFilenames) ==
    LET NotMigrated(file) == file \notin Range(migratedFilenames)
    IN  SelectSeq(files, NotMigrated)

\* Mutant of FilteredFiles: every migrated file is taken.
FilteredFiles_all(migratedFilenames, filename) == migratedFilenames

\* migratedFilenames.filter(file => file.includes(filename))
FilteredFiles(migratedFilenames, filename) ==
    LET Matches(file) == Includes(file, filename)
    IN  SelectSeq(migratedFilenames, Matches)

\* file.split('_'), shift(), join('_')
FilePart(file) == Join(Tail(Split(file, "_")), "_")

\* Mutant of CompareFiles: the whole filenames are compared.
CompareFiles_byName(file1, file2) ==
    IF file1 = file2 THEN 0 ELSE IF StrLess(file1, file2) THEN -1 ELSE 1

\* The comparator of sortFiles.
CompareFiles(file1, file2) ==
    LET file1Part == FilePart(file1)
        file2Part == FilePart(file2)
    IN  IF file1Part = file2Part THEN 0
        ELSE IF StrLess(file1Part, file2Part) THEN -1 ELSE 1

\* Array.prototype.sort under the comparator: a stable sort.  x goes in
\* front of the first element it compares below.
RECURSIVE InsertFile(_, _)
InsertFile(sorted, x) ==
    IF sorted = <<>> THEN <<x>>
    ELSE IF CompareFiles(x, Head(sorted)) < 0 THEN <<x>> \o sorted
    ELSE <<Head(sorted)>> \o InsertFile(Tail(sorted), x)

RECURSIVE SortFiles(_)
SortFiles(toMigrateFiles) ==
    IF toMigrateFiles = <<>> THEN <<>>
    ELSE InsertFile(SortFiles(SubSeq(toMigrateFiles, 1, Len(toMigrateFiles) - 1)),
                    toMigrateFiles[Len(toMigrateFiles)])

\* args[3] === 'test'
IsTest(arg3) == arg3 = A_test

\* Mutant of SavesToLedger: the flag is ignored.
SavesToLedger_always(isTest) == TRUE

\* if (!isTest) await this.migrationRepo.create(...)
SavesToLedger(isTest) == ~isTest

\* The settlement of the promise of backupMongoDb: 'error' rejects it,
\* 'close' resolves it with true whatever the exit code.
BackupSettles(event) == IF event = "error" THEN "threw" ELSE "returned"

-----------------------------------------------------------------------------
(* generateMigrationFile and appendTimestampToFilename *)

\* The local times at which a name is generated: what the getters of Date
\* return (getMonth counts from 0).
D_may == [fullYear |-> 2024, month |-> 4, date |-> 7,
          hours |-> 3, minutes |-> 4, seconds |-> 5]
D_dec == [fullYear |-> 2023, month |-> 11, date |-> 31,
          hours |-> 23, minutes |-> 59, seconds |-> 59]

Instants == {D_may, D_dec}

\* More local times for the calls of appendTimestampToFilename alone: the
\* last second of September, the first of October, and noon of the day of
\* D_may.
D_sep == [fullYear |-> 2024, month |-> 8, date |-> 30,
          hours |-> 23, minutes |-> 59, seconds |-> 59]
D_oct == [fullYear |-> 2024, month |-> 9, date |-> 1,
          hours |-> 0, minutes |-> 0, seconds |-> 0]
D_noon == [fullYear |-> 2024, month |-> 4, date |-> 7,
           hours |-> 12, minutes |-> 0, seconds |-> 9]

StampInstants == Instants \cup {D_sep, D_oct, D_noon}

\* The names given to appendTimestampToFilename:
\* "My Migration", "My_Migration", " add_users ", "db", "_", "A_B_C"
N_myMigration == << "M", "y", " ", "M", "i", "g", "r", "a", "t", "i", "o", "n" >>
N_my_migration == << "M", "y", "_", "M", "i", "g", "r", "a", "t", "i", "o", "n" >>
N_addUsers == << " ", "a", "d", "d", "_", "u", "s", "e", "r", "s", " " >>
N_db == << "d", "b" >>
N_underscore == << "_" >>
N_abc == << "A", "_", "B", "_", "C" >>

StampNames == {N_myMigration, N_my_migration, N_addUsers, N_db, N_underscore, N_abc}

\* The names and the local times of the files made by create before a
\* forward run: "db" and "A_B_C", in 2023 and in 2024.
CreatedNames == {N_db, N_abc}

CreatedInstants == {D_dec, D_sep, D_oct}

\* The extensions: <<>> stands for null, as in backupMongoDb; "ts"
E_ts == << "t", "s" >>

Extensions == {<<>>, E_ts}

\* String.prototype.trim, for the blank.
RECURSIVE TrimStart(_)
TrimStart(s) ==
    IF s # <<>> /\ Head(s) = " " THEN TrimStart(Tail(s)) ELSE s

RECURSIVE TrimEnd(_)
TrimEnd(s) ==
    IF s # <<>> /\ s[Len(s)] = " " THEN TrimEnd(SubSeq(s, 1, Len(s) - 1)) ELSE s

Trim(s) == TrimEnd(TrimStart(s))

\* String.prototype.toLowerCase: "A".."Z" to "a".."z".
ToLowerCase(s) ==
    [k \in 1..Len(s) |->
        IF Code(s[k]) >= Code("A") /\ Code(s[k]) <= Code("Z")
        THEN Chars[Code(s[k]) - Code("A") + Code("a")]
        ELSE s[k]]

\* Mutant of ReplaceUnderscores: the underscores stay.
ReplaceUnderscores_keeps(s) == s

\* replace(/_/g, '-')
ReplaceUnderscores(s) ==
    [k \in 1..Len(s) |-> IF s[k] = "_" THEN "-" ELSE s[k]]

\* filename.trim().toLowerCase().replace(/_/g, '-')
TransformedName(filename) == ReplaceUnderscores(ToLowerCase(Trim(filename)))

\* Number.prototype.toString of a natural number.
RECURSIVE NumberToString(_)
NumberToString(n) ==
    IF n < 10 THEN <<Chars[Code("0") + n]>>
    ELSE NumberToString(n \div 10) \o <<Chars[Code("0") + (n % 10)]>>

\* Mutant of PadStart2: nothing is added.
PadStart2_none(s) == s

\* s.padStart(2, '0')
PadStart2(s) == IF Len(s) < 2 THEN <<"0">> \o s ELSE s

\* appendTimestampToFilename(filename, extension) at local time d;
\* extension <<>> stands for null.
AppendTimestampToFilename(filename, extension, d) ==
    LET transformedName == TransformedName(filename)
        hr == PadStart2(NumberToString(d.hours))
        min == PadStart2(NumberToString(d.minutes))
        sec == PadStart2(NumberToString(d.seconds))
        month == PadStart2(NumberToString(d.month + 1))
        day == PadStart2(NumberToString(d.date))
        year == NumberToString(d.fullYear)
        stringDate == month \o <<"-">> \o day \o <<"-">> \o year \o <<"_">>
                      \o hr \o min \o sec
    IN  transformedName \o <<"_">> \o stringDate
        \o (IF extension # <<>> THEN <<".">> \o extension ELSE <<>>)

\* The name generateMigrationFile writes: the name is transformed before
\* appendTimestampToFilename transforms it again.
MigrationFilename(filename, d) ==
    AppendTimestampToFilename(TransformedName(filename), <<"t", "s">>, d)

-----------------------------------------------------------------------------
(* The invocations *)

\* All the orders in which readdir may list a set of names.
RECURSIVE Listings(_)
Listings(names) ==
    IF names = {} THEN {<<>>}
    ELSE UNION {{<<n>> \o rest : rest \in Listings(names \ {n})} : n \in names}

\* No catalog: the value of prevFull when the invocation before was not a
\* forward run that executed and recorded everything pending.
NoCatalog == {<<>>}

\* An invocation that has not started.
Idle ==
    [pc |-> "idle",              \* where the invocation stands
     action |-> "",              \* args[2]
     filename |-> <<>>,          \* args[3], '' when missing
     isTest |-> FALSE,
     migrationFilename |-> <<>>, \* create: the name being written
     files |-> <<>>,             \* what readDir returned, until it is filtered
     listed |-> NoCatalog,       \* the set of the names readDir returned
     migratedFilenames |-> <<>>,
     toMigrateFiles |-> <<>>,
     filteredFiles |-> <<>>,
     i |-> 0,                    \* the position of the loop over the files
     started |-> <<>>,           \* the files whose transform was called, in order
     running |-> <<>>,           \* the file whose transform has not settled
     unresolved |-> <<>>,        \* down: the matches without a built module
     dump |-> "none",            \* the dump process: none, running, or how it ended
     result |-> "none",          \* none, returned, threw
     why |-> "",                 \* what ended the invocation
     ledger0 |-> <<>>,           \* the ledger when the invocation started
     catalog0 |-> {},            \* the folder's names when the invocation started
     dirExisted |-> FALSE,       \* whether the folder existed when it started
     replay |-> <<>>,            \* the file the invocation before executed and,
                                 \* cut short, did not record
     prevFull |-> NoCatalog]     \* the listing of the full forward run just before

Returned(r, why) ==
    [r EXCEPT !.pc = "done", !.result = "returned", !.why = why, !.running = <<>>]

Threw(r, why) ==
    [r EXCEPT !.pc = "done", !.result = "threw", !.why = why, !.running = <<>>]

\* The listing of the invocation r if it was a forward run, not a test,
\* that went through all its files.
FullCatalog(r) ==
    IF r.action = "up" /\ ~r.isTest /\ r.result = "returned" /\ r.why = "completed"
    THEN r.listed
    ELSE NoCatalog

\* Mutant of Dispatch: create does not check that a name was given.
Dispatch_noNameCheck(r, arg2, arg3, d) ==
    LET r1 == [r EXCEPT !.action = arg2]
    IN  IF arg2 = "create"
        THEN [r1 EXCEPT !.pc = "writeFile", !.filename = arg3,
                        !.migrationFilename = MigrationFilename(arg3, d)]
        ELSE IF arg2 = "up" \/ arg2 = "down"
        THEN [r1 EXCEPT !.pc = "readDir", !.filename = arg3, !.isTest = IsTest(arg3)]
        ELSE IF arg2 = "backup"
        THEN [r1 EXCEPT !.pc = "readDir"]
        ELSE Returned(r1, "usage")

\* The invocation r cut short where it stood (the process died).
Crashed(r) ==
    [r EXCEPT !.pc = "done", !.result = "crashed", !.why = r.pc, !.running = <<>>]

\* The file whose transform had settled and whose ledger entry was not yet
\* written when the invocation r was cut short.
Unsaved(r) ==
    IF r.result = "crashed" /\ r.why = "upSave" THEN r.toMigrateFiles[r.i] ELSE <<>>

\* migrate(args) up to its first await.
Dispatch(r, arg2, arg3, d) ==
    LET action == arg2
        filename == arg3
        isTest == IsTest(arg3)
        r1 == [r EXCEPT !.action = action]
    IN  IF action = "create"
        THEN IF filename = <<>>
             THEN Threw(r1, "Filename is missing")
             ELSE [r1 EXCEPT !.pc = "writeFile", !.filename = filename,
                             !.migrationFilename = MigrationFilename(filename, d)]
        ELSE IF action = "up" \/ action = "down"
        THEN [r1 EXCEPT !.pc = "readDir", !.filename = filename, !.isTest = isTest]
        ELSE IF action = "backup"
        THEN [r1 EXCEPT !.pc = "readDir"]
        ELSE Returned(r1, "usage")

\* The invocations do not overlap: one starts when no other is under way.
\* It runs as the first process.
NoneUnderWay == \A q \in Procs : inv[q].pc \in {"idle", "done"}

Migrate(p, arg2, arg3, d) ==
    /\ NoneUnderWay
    /\ p = 1
    /\ IF arg2 = "create"
       THEN /\ arg3 \in Names \cup CreatedNames
            /\ arg3 # <<>> =>
                  Cardinality(catalog \cup {MigrationFilename(arg3, d)}) <= MaxFiles
       ELSE d = D_may
    /\ LET r == [Idle EXCEPT !.ledger0 = ledger, !.catalog0 = catalog,
                             !.dirExisted = dirExists,
                             !.prevFull = FullCatalog(inv[p]),
                             !.replay = Unsaved(inv[p])]
       IN  inv' = [inv EXCEPT ![p] = Dispatch(r, arg2, arg3, d)]
    \* generateMigrationFile makes the folder before it awaits writeFile
    /\ dirExists' = (dirExists \/ (arg2 = "create" /\ arg3 # <<>>))
    /\ UNCHANGED <<catalog, ledger, stamp>>

\* await this.writeFile(migrationFilename, migrationContent)
WriteFile(p) ==
    /\ inv[p].pc = "writeFile"
    /\ catalog' = catalog \cup {inv[p].migrationFilename}
    /\ inv' = [inv EXCEPT ![p] = Returned(inv[p], "generated")]
    /\ UNCHANGED <<dirExists, ledger, stamp>>

\* Mutant of ReadDir: a folder that does not exist is listed as empty.
ReadDir_emptyWhenAbsent(p) ==
    /\ inv[p].pc = "readDir"
    /\ \E files \in Listings(IF dirExists THEN catalog ELSE {}) :
            inv' = [inv EXCEPT ![p].files = files, ![p].listed = Range(files),
                               ![p].pc = "find"]
    /\ UNCHANGED <<dirExists, catalog, ledger, stamp>>

\* await this.readDir(rawMigrationDir)
ReadDir(p) ==
    /\ inv[p].pc = "readDir"
    /\ IF ~dirExists
       THEN inv' = [inv EXCEPT ![p] = Threw(inv[p], "ENOENT")]
       ELSE \E files \in Listings(catalog) :
                inv' = [inv EXCEPT ![p].files = files, ![p].listed = Range(files),
                                   ![p].pc = "find"]
    /\ UNCHANGED <<dirExists, catalog, ledger, stamp>>

\* executeMigration from the ledger read to its next await: the pending
\* files, then the branch of the action.
Found(r, migratedFilesFromDb) ==
    LET migratedFilenames == MigratedFilenames(migratedFilesFromDb)
        toMigrateFiles == ToMigrateFiles(r.files, migratedFilenames)
        r1 == [r EXCEPT !.migratedFilenames = migratedFilenames,
                        !.toMigrateFiles = toMigrateFiles, !.files = <<>>]
        filteredFiles == FilteredFiles(migratedFilenames, r.filename)
        sorted == SortFiles(toMigrateFiles)
    IN  IF r.action = "backup"
        THEN [r1 EXCEPT !.pc = "backupWait", !.dump = "running"]
        ELSE IF r.action = "down"
        THEN IF r.filename = <<>>
             THEN Returned(r1, "Filename is missing")
             ELSE IF Len(filteredFiles) = 0
             THEN Returned(r1, "not yet migrated")
             ELSE [r1 EXCEPT !.pc = "downResolve", !.filteredFiles = filteredFiles,
                             !.i = 1]
        ELSE IF Len(sorted) = 0
             THEN Returned(r1, "completed")
             ELSE [r1 EXCEPT !.pc = "upImport", !.toMigrateFiles = sorted, !.i = 1]

\* await this.migrationRepo.find({})
FindLedger(p) ==
    /\ inv[p].pc = "find"
    /\ inv' = [inv EXCEPT ![p] = Found(inv[p], ledger)]
    /\ UNCHANGED <<dirExists, catalog, ledger, stamp>>

\* The end of one turn of the loop over toMigrateFiles.
NextUp(r) ==
    IF r.i < Len(r.toMigrateFiles)
    THEN [r EXCEPT !.pc = "upImport", !.i = r.i + 1, !.running = <<>>]
    ELSE Returned(r, "completed")

\* Mutant of UpImported: a module without up makes the run throw.
UpImported_throws(r, module) ==
    LET file == r.toMigrateFiles[r.i]
    IN  IF module = "absent" THEN Threw(r, "import failed")
        ELSE IF module = "noTransform" THEN Threw(r, "up not found")
        ELSE [r EXCEPT !.pc = "upRun", !.started = Append(r.started, file),
                       !.running = file]

\* await import(...) of the built module of the file, and the call of its up.
UpImported(r, module) ==
    LET file == r.toMigrateFiles[r.i]
    IN  IF module = "absent" THEN Threw(r, "import failed")
        ELSE IF module = "noTransform" THEN Returned(r, "up not found")
        ELSE [r EXCEPT !.pc = "upRun", !.started = Append(r.started, file),
                       !.running = file]

\* Mutant of UpImport: the ledger entry is written when the transform is
\* called.
UpImport_recordsFirst(p) ==
    /\ inv[p].pc = "upImport"
    /\ \E module \in Modules :
        /\ inv' = [inv EXCEPT ![p] = UpImported(inv[p], module)]
        /\ ledger' = IF module = "transform" /\ ~inv[p].isTest
                     THEN Append(ledger, [filename |-> inv[p].toMigrateFiles[inv[p].i]])
                     ELSE ledger
    /\ UNCHANGED <<dirExists, catalog, stamp>>

UpImport(p) ==
    /\ inv[p].pc = "upImport"
    /\ \E module \in Modules : inv' = [inv EXCEPT ![p] = UpImported(inv[p], module)]
    /\ UNCHANGED <<dirExists, catalog, ledger, stamp>>

\* Mutant of UpSettled: the next file is taken without awaiting the write of
\* the ledger entry.
UpSettled_notAwaited(r, ok) ==
    IF ~ok THEN Threw(r, "up failed") ELSE NextUp(r)

\* What follows the settlement of migrationActions.up(repositories).
UpSettled(r, ok) ==
    IF ~ok THEN Threw(r, "up failed")
    ELSE IF SavesToLedger(r.isTest)
    THEN [r EXCEPT !.pc = "upSave", !.running = <<>>]
    ELSE NextUp(r)

\* Mutant of UpRun: the entry is written whether the transform failed or not.
UpRun_savesOnFailure(p) ==
    /\ inv[p].pc = "upRun"
    /\ \E ok \in BOOLEAN :
        /\ inv' = [inv EXCEPT ![p] = UpSettled(inv[p], ok)]
        /\ ledger' = IF ok THEN ledger
                     ELSE Append(ledger, [filename |-> inv[p].toMigrateFiles[inv[p].i]])
    /\ UNCHANGED <<dirExists, catalog, stamp>>

\* await migrationActions.up(repositories) settles.
UpRun(p) ==
    /\ inv[p].pc = "upRun"
    /\ \E ok \in BOOLEAN : inv' = [inv EXCEPT ![p] = UpSettled(inv[p], ok)]
    /\ UNCHANGED <<dirExists, catalog, ledger, stamp>>

\* Mutant of UpSave: no entry is written for a filename the ledger holds.
UpSave_unlessRecorded(p) ==
    /\ inv[p].pc = "upSave"
    /\ ledger' = IF \E k \in 1..Len(ledger) :
                        ledger[k].filename = inv[p].toMigrateFiles[inv[p].i]
                 THEN ledger
                 ELSE Append(ledger, [filename |-> inv[p].toMigrateFiles[inv[p].i]])
    /\ inv' = [inv EXCEPT ![p] = NextUp(inv[p])]
    /\ UNCHANGED <<dirExists, catalog, stamp>>

\* await this.migrationRepo.create({filename: file, dateMigrated})
UpSave(p) ==
    /\ inv[p].pc = "upSave"
    /\ ledger' = Append(ledger, [filename |-> inv[p].toMigrateFiles[inv[p].i]])
    /\ inv' = [inv EXCEPT ![p] = NextUp(inv[p])]
    /\ UNCHANGED <<dirExists, catalog, stamp>>

\* The end of one turn of the loop over filteredFiles.
NextDown(r) ==
    IF r.i < Len(r.filteredFiles)
    THEN [r EXCEPT !.pc = "downResolve", !.i = r.i + 1, !.running = <<>>]
    ELSE Returned(r, "completed")

\* Mutant of DownResolved: a match without a built module ends the loop.
DownResolved_stopsOnAbsent(r, module) ==
    LET file == r.filteredFiles[r.i]
    IN  IF module = "absent"
        THEN Returned([r EXCEPT !.unresolved = Append(r.unresolved, file)], "completed")
        ELSE IF module = "noTransform" THEN Returned(r, "down not found")
        ELSE [r EXCEPT !.pc = "downRun", !.started = Append(r.started, file),
                       !.running = file]

\* fs.existsSync(fileToExecute + '.js'), the import and the call of down.
DownResolved(r, module) ==
    LET file == r.filteredFiles[r.i]
    IN  IF module = "absent"
        THEN NextDown([r EXCEPT !.unresolved = Append(r.unresolved, file)])
        ELSE IF module = "noTransform" THEN Returned(r, "down not found")
        ELSE [r EXCEPT !.pc = "downRun", !.started = Append(r.started, file),
                       !.running = file]

DownResolve(p) ==
    /\ inv[p].pc = "downResolve"
    /\ \E module \in Modules : inv' = [inv EXCEPT ![p] = DownResolved(inv[p], module)]
    /\ UNCHANGED <<dirExists, catalog, ledger, stamp>>

\* What follows the settlement of migrationActions.down(repositories).
DownSettled(r, ok) ==
    IF ~ok THEN Threw(r, "down failed") ELSE NextDown(r)

\* Mutant of DownRun: a reverted file loses its ledger entry.
DownRun_removesEntry(p) ==
    /\ inv[p].pc = "downRun"
    /\ \E ok \in BOOLEAN :
        /\ inv' = [inv EXCEPT ![p] = DownSettled(inv[p], ok)]
        /\ ledger' = IF ok
                     THEN LET Others(e) == e.filename # inv[p].running
                          IN  SelectSeq(ledger, Others)
                     ELSE ledger
    /\ UNCHANGED <<dirExists, catalog, stamp>>

\* await migrationActions.down(repositories) settles.
DownRun(p) ==
    /\ inv[p].pc = "downRun"
    /\ \E ok \in BOOLEAN : inv' = [inv EXCEPT ![p] = DownSettled(inv[p], ok)]
    /\ UNCHANGED <<dirExists, catalog, ledger, stamp>>

\* backupMongoDb: the event of the spawned process that settles the promise.
BackupEvent(p) ==
    /\ inv[p].pc = "backupWait"
    /\ \E event \in DumpEvents :
        LET r == [inv[p] EXCEPT !.dump = event]
        IN  inv' = [inv EXCEPT ![p] =
                IF BackupSettles(event) = "threw"
                THEN Threw(r, "dump error")
                ELSE Returned(r, "backed up")]
    /\ UNCHANGED <<dirExists, catalog, ledger, stamp>>

-----------------------------------------------------------------------------
(* The specification *)

\* No call of appendTimestampToFilename on its own.
NoStamp == [filename |-> <<>>, extension |-> <<>>, d |-> D_may, result |-> <<>>]

Init ==
    /\ stamp = NoStamp
    /\ dirExists \in BOOLEAN
    /\ catalog \in {c \in SUBSET FileUniverse :
                       Cardinality(c) <= MaxFiles /\ (~dirExists => c = {})}
    /\ ledger \in {<<>>, <<[filename |-> F_z1]>>}
    /\ inv = [p \in Procs |-> Idle]

Next ==
    \E p \in Procs :
        \/ \E arg2 \in Args2, arg3 \in Args3, d \in Instants : Migrate(p, arg2, arg3, d)
        \/ WriteFile(p)
        \/ ReadDir(p)
        \/ FindLedger(p)
        \/ UpImport(p)
        \/ UpRun(p)
        \/ UpSave(p)
        \/ DownResolve(p)
        \/ DownRun(p)
        \/ BackupEvent(p)

Spec == Init /\ [][Next]_vars

-----------------------------------------------------------------------------
(* Forward runs that may be cut short *)

\* The process of the invocation dies between two steps.
Crash(p) ==
    /\ inv[p].pc \notin {"idle", "done"}
    /\ inv' = [inv EXCEPT ![p] = Crashed(inv[p])]
    /\ UNCHANGED <<dirExists, catalog, ledger, stamp>>

NextCrash ==
    \E p \in Procs :
        \/ \E arg3 \in {A_none, A_test} : Migrate(p, "up", arg3, D_may)
        \/ ReadDir(p)
        \/ FindLedger(p)
        \/ UpImport(p)
        \/ UpRun(p)
        \/ UpSave(p)
        \/ Crash(p)

SpecCrash == Init /\ [][NextCrash]_vars

-----------------------------------------------------------------------------
(* Forward runs over files made by create *)

InitCreated ==
    /\ stamp = NoStamp
    /\ dirExists = FALSE
    /\ catalog = {}
    /\ ledger = <<>>
    /\ inv = [p \in Procs |-> Idle]

NextCreated ==
    \E p \in Procs :
        \/ \E arg3 \in CreatedNames, d \in CreatedInstants : Migrate(p, "create", arg3, d)
        \/ Migrate(p, "up", A_none, D_may)
        \/ WriteFile(p)
        \/ ReadDir(p)
        \/ FindLedger(p)
        \/ UpImport(p)
        \/ UpRun(p)
        \/ UpSave(p)

SpecCreated == InitCreated /\ [][NextCreated]_vars

-----------------------------------------------------------------------------
(* Invocations that overlap *)

\* The folders of the overlapping forward runs.
ConcCatalogs == {{F_b1}, {F_b1, F_a2}}

InitConc ==
    /\ stamp = NoStamp
    /\ dirExists \in BOOLEAN
    /\ catalog \in (IF dirExists THEN ConcCatalogs ELSE {{}})
    /\ ledger = <<>>
    /\ inv = [p \in Procs |-> Idle]

\* migrate(['', '', 'up', arg3]) called by process p, whatever the other
\* process is doing: nothing in migrate or executeMigration waits for
\* another invocation.  Each process calls once.
MigrateOverlapping(p, arg3) ==
    /\ inv[p].pc = "idle"
    /\ LET r == [Idle EXCEPT !.ledger0 = ledger, !.catalog0 = catalog,
                             !.dirExisted = dirExists]
       IN  inv' = [inv EXCEPT ![p] = Dispatch(r, "up", arg3, D_may)]
    /\ UNCHANGED <<dirExists, catalog, ledger, stamp>>

NextConc ==
    \E p \in Procs :
        \/ \E arg3 \in {A_none, A_test} : MigrateOverlapping(p, arg3)
        \/ ReadDir(p)
        \/ FindLedger(p)
        \/ UpImport(p)
        \/ UpRun(p)
        \/ UpSave(p)

SpecConc == InitConc /\ [][NextConc]_vars

-----------------------------------------------------------------------------
(* appendTimestampToFilename on its own *)

InitStamp ==
    /\ stamp \in [filename : StampNames, extension : Extensions,
                   d : StampInstants, result : {<<>>}]
    /\ dirExists = FALSE
    /\ catalog = {}
    /\ ledger = <<>>
    /\ inv = [p \in Procs |-> Idle]

\* The call returns.
Stamp ==
    /\ stamp.result = <<>>
    /\ stamp' = [stamp EXCEPT !.result =
                     AppendTimestampToFilename(stamp.filename, stamp.extension, stamp.d)]
    /\ UNCHANGED <<dirExists, catalog, ledger, inv>>

NextStamp == Stamp

SpecStamp == InitStamp /\ [][NextStamp]_vars

-----------------------------------------------------------------------------
(* Vocabulary of the properties *)

\* The filenames a ledger records.
LedgerFilenames(l) == {l[k].filename : k \in 1..Len(l)}

\* The ledger entries of a sequence of files.
EntriesOf(fs) == [k \in 1..Len(fs) |-> [filename |-> fs[k]]]

\* s is the start of t.
IsPrefix(s, t) == Len(s) <= Len(t) /\ s = SubSeq(t, 1, Len(s))

\* What is left of a filename without the segment before its first
\* underscore (nothing when it has no underscore).
SuffixKey(f) ==
    IF \E k \in 1..Len(f) : f[k] = "_"
    THEN LET k == CHOOSE j \in 1..Len(f) : f[j] = "_" /\ \A m \in 1..(j - 1) : f[m] # "_"
         IN  SubSeq(f, k + 1, Len(f))
    ELSE <<>>

\* t occurs in f.
Contains(f, t) == \E a \in 0..Len(f) : \E b \in a..Len(f) : SubSeq(f, a + 1, b) = t

\* The invocation p is a forward run that has read the folder and the ledger.
UpUnderWay(p) ==
    /\ inv[p].action = "up"
    /\ inv[p].listed # NoCatalog
    /\ inv[p].pc \in {"upImport", "upRun", "upSave", "done"}

-----------------------------------------------------------------------------
(* C1 *)

\* C1: the files a forward run may execute are exactly the listed names that
\* the ledger does not record, each once; what it executes is among them; and
\* when the ledger records every listed name the run has returned normally,
\* has executed nothing and has appended nothing.
C1_PendingIsCatalogMinusLedger ==
    \A p \in Procs :
        UpUnderWay(p) =>
            LET r == inv[p]
                pending == r.listed \ LedgerFilenames(r.ledger0)
            IN  /\ Range(r.toMigrateFiles) = pending
                /\ Len(r.toMigrateFiles) = Cardinality(pending)
                /\ Range(r.started) \subseteq pending
                /\ pending = {} =>
                       /\ r.pc = "done" /\ r.result = "returned"
                       /\ r.started = <<>>
                       /\ ledger = r.ledger0

\* A forward run over a folder of which the ledger records a part has
\* executed the rest.
C1_Witness ==
    \E p \in Procs :
        /\ UpUnderWay(p) /\ inv[p].pc = "done"
        /\ inv[p].listed \cap LedgerFilenames(inv[p].ledger0) # {}
        /\ inv[p].started # <<>>
        /\ Range(inv[p].started) = inv[p].listed \ LedgerFilenames(inv[p].ledger0)

-----------------------------------------------------------------------------
(* C2 *)

\* C2: a forward run never calls the transform of a file the ledger recorded
\* when the run started; and a forward run that follows a complete forward
\* run (not a test) over the same listing executes nothing and appends
\* nothing.
C2_NoReexecution ==
    \A p \in Procs :
        inv[p].action = "up" =>
            LET r == inv[p]
            IN  /\ \A k \in 1..Len(r.started) :
                       r.started[k] \notin LedgerFilenames(r.ledger0)
                /\ (r.prevFull # NoCatalog /\ r.listed = r.prevFull) =>
                       (r.started = <<>> /\ ledger = r.ledger0)

\* A forward run after a complete one over the same files, which had
\* something to execute.
C2_Witness ==
    \E p \in Procs :
        /\ inv[p].action = "up" /\ inv[p].pc = "done"
        /\ inv[p].prevFull # NoCatalog /\ inv[p].listed = inv[p].prevFull
        /\ Cardinality(inv[p].listed) >= 2
        /\ inv[p].result = "returned"

-----------------------------------------------------------------------------
(* C3 *)

\* C3: when the forward transform of a file fails, the run has thrown; the
\* files whose transform was called are the pending files up to the failing
\* one, so no later one was started; and the ledger is the ledger of the
\* start followed by the entries of the files that succeeded before it (none
\* in a test run): no entry for the failing file or for a later one.
C3_FailureStopsRun ==
    \A p \in Procs :
        (inv[p].action = "up" /\ inv[p].why = "up failed") =>
            LET r == inv[p]
                before == SubSeq(r.started, 1, Len(r.started) - 1)
            IN  /\ r.pc = "done" /\ r.result = "threw"
                /\ r.started = SubSeq(r.toMigrateFiles, 1, r.i)
                /\ ledger = r.ledger0 \o (IF r.isTest THEN <<>> ELSE EntriesOf(before))
                /\ \A k \in r.i..Len(r.toMigrateFiles) :
                       r.toMigrateFiles[k] \notin LedgerFilenames(ledger)

\* The second of three pending files failed in a run that records.
C3_Witness ==
    \E p \in Procs :
        /\ inv[p].action = "up" /\ inv[p].why = "up failed" /\ ~inv[p].isTest
        /\ inv[p].i = 2 /\ Len(inv[p].toMigrateFiles) = 3
        /\ Len(ledger) = Len(inv[p].ledger0) + 1

-----------------------------------------------------------------------------
(* C4 *)

\* C4: when the built module of the next pending file has no up, the run
\* has returned normally; that file and the later ones were not executed and
\* are not in the ledger; the files executed before it are recorded (in a
\* run that is not a test).
C4_MissingUpStopsRun ==
    \A p \in Procs :
        (inv[p].action = "up" /\ inv[p].why = "up not found") =>
            LET r == inv[p]
            IN  /\ r.pc = "done" /\ r.result = "returned"
                /\ r.started = SubSeq(r.toMigrateFiles, 1, r.i - 1)
                /\ ledger = r.ledger0 \o (IF r.isTest THEN <<>> ELSE EntriesOf(r.started))
                /\ \A k \in r.i..Len(r.toMigrateFiles) :
                       /\ r.toMigrateFiles[k] \notin Range(r.started)
                       /\ r.toMigrateFiles[k] \notin LedgerFilenames(ledger)

\* The second of three pending files has no up, in a run that records.
C4_Witness ==
    \E p \in Procs :
        /\ inv[p].action = "up" /\ inv[p].why = "up not found" /\ ~inv[p].isTest
        /\ inv[p].i = 2 /\ Len(inv[p].toMigrateFiles) = 3
        /\ Len(ledger) = Len(inv[p].ledger0) + 1

-----------------------------------------------------------------------------
(* C5 *)

\* C5: in a forward run whose args[3] is "test" the ledger stays what it was
\* when the run started; the transforms are called in the order of the pending
\* files, all of them when the run goes through; and no file it executed is
\* in the ledger, so each is pending again.
C5_TestLeavesLedger ==
    \A p \in Procs :
        (inv[p].action = "up" /\ inv[p].filename = A_test) =>
            LET r == inv[p]
            IN  /\ ledger = r.ledger0
                /\ IsPrefix(r.started, r.toMigrateFiles)
                /\ (r.pc = "done" /\ r.why = "completed") => r.started = r.toMigrateFiles
                /\ \A k \in 1..Len(r.started) :
                       r.started[k] \notin LedgerFilenames(ledger)

\* A test run that went through at least two files.
C5_Witness ==
    \E p \in Procs :
        /\ inv[p].action = "up" /\ inv[p].filename = A_test
        /\ inv[p].pc = "done" /\ inv[p].why = "completed"
        /\ Len(inv[p].started) >= 2

-----------------------------------------------------------------------------
(* C6 *)

\* C6: of two files executed in the same forward run, the one executed
\* later does not have the smaller key, the key being the filename without
\* the segment before its first underscore.
C6_AscendingKeys ==
    \A p \in Procs :
        inv[p].action = "up" =>
            \A j, k \in 1..Len(inv[p].started) :
                j < k => ~StrLess(SuffixKey(inv[p].started[k]),
                                  SuffixKey(inv[p].started[j]))

\* "b_1.ts" executed before "a_2.ts", after a run that executed other files.
C6_Witness ==
    \E p \in Procs :
        /\ inv[p].action = "up"
        /\ inv[p].ledger0 # <<>>
        /\ \E j, k \in 1..Len(inv[p].started) :
               j < k /\ inv[p].started[j] = F_b1 /\ inv[p].started[k] = F_a2

-----------------------------------------------------------------------------
(* C7 *)

\* C7: a reverse run with token T calls the reverse transform only of files
\* that the ledger records and whose name contains T; when no recorded name
\* contains T, the run, once it has read the ledger, has returned normally
\* without calling any transform.
C7_DownOnlyMatches ==
    \A p \in Procs :
        inv[p].action = "down" =>
            LET r == inv[p]
                recorded == LedgerFilenames(r.ledger0)
            IN  /\ \A k \in 1..Len(r.started) :
                       /\ r.started[k] \in recorded
                       /\ Contains(r.started[k], r.filename)
                /\ (r.listed # NoCatalog /\ r.pc # "find"
                      /\ \A f \in recorded : ~Contains(f, r.filename)) =>
                       (r.pc = "done" /\ r.result = "returned" /\ r.started = <<>>)

\* A reverse run reverted a file while the ledger records a file without
\* the token and the folder holds a file with the token that is not recorded.
C7_Witness ==
    \E p \in Procs :
        /\ inv[p].action = "down" /\ inv[p].started # <<>>
        /\ \E f \in LedgerFilenames(inv[p].ledger0) : ~Contains(f, inv[p].filename)
        /\ \E f \in catalog \ LedgerFilenames(inv[p].ledger0) :
               Contains(f, inv[p].filename)

-----------------------------------------------------------------------------
(* C8 *)

\* C8: during and after a reverse run, however it ends, the ledger is the
\* ledger of its start: the files it reverted are still recorded.
C8_DownLeavesLedger ==
    \A p \in Procs :
        inv[p].action = "down" =>
            /\ ledger = inv[p].ledger0
            /\ Range(inv[p].started) \subseteq LedgerFilenames(ledger)

\* A reverse run that reverted two files and went through.
C8_Witness ==
    \E p \in Procs :
        /\ inv[p].action = "down" /\ inv[p].pc = "done"
        /\ inv[p].why = "completed" /\ Len(inv[p].started) = 2

-----------------------------------------------------------------------------
(* C9 *)

\* C9: the backup reports success only when the dump process ended without
\* error: it rejects when the process could not be launched or ended with a
\* status other than 0.
C9_FailedDumpIsReported ==
    \A p \in Procs :
        (inv[p].action = "backup" /\ inv[p].pc = "done" /\ inv[p].dump # "none") =>
            (inv[p].result = "returned" <=> inv[p].dump = "close0")

-----------------------------------------------------------------------------
(* C10 *)

\* C10: in a forward run whose args[3] is "backup:true", the dump process
\* has been launched and has ended before the first forward transform is
\* called.
C10_BackupBeforeUp ==
    \A p \in Procs :
        (inv[p].action = "up" /\ inv[p].filename = A_backup /\ inv[p].started # <<>>) =>
            inv[p].dump \in DumpEvents

-----------------------------------------------------------------------------
(* C11 *)

\* The invocation p has ended and was create without a name or down without
\* a token.
MissingArgument(p) ==
    /\ inv[p].pc = "done"
    /\ inv[p].action \in {"create", "down"}
    /\ inv[p].filename = <<>>

-----------------------------------------------------------------------------
(* C12 *)

\* C12: when the invocations do not overlap, the ledger never holds two
\* entries with the same filename.
C12_LedgerFilenamesUnique ==
    Len(ledger) = Cardinality(LedgerFilenames(ledger))

\* A forward run that started from a ledger of two entries appended one and
\* was then cut short by a failing transform.
C12_Witness ==
    \E p \in Procs :
        /\ inv[p].action = "up" /\ inv[p].why = "up failed"
        /\ Len(inv[p].ledger0) >= 2
        /\ Len(ledger) > Len(inv[p].ledger0)

-----------------------------------------------------------------------------
(* C13 *)

\* n in two decimal digits.
TwoDigits(n) == <<Chars[Code("0") + (n \div 10)], Chars[Code("0") + (n % 10)]>>

\* <MM>-<DD>-<YYYY>_<HHMMSS> of a local time (years of four digits).
StampOf(d) ==
    TwoDigits(d.month + 1) \o <<"-">> \o TwoDigits(d.date) \o <<"-">>
    \o TwoDigits(d.fullYear \div 100) \o TwoDigits(d.fullYear % 100) \o <<"_">>
    \o TwoDigits(d.hours) \o TwoDigits(d.minutes) \o TwoDigits(d.seconds)

\* The segment of a filename before its first underscore.
FirstSegment(f) == SubSeq(f, 1, Len(f) - Len(SuffixKey(f)) - 1)

\* The numbers of blanks at the start and at the end of a name that is not
\* all blanks.
BlanksAtStart(s) == Cardinality({k \in 1..Len(s) : \A m \in 1..k : s[m] = " "})
BlanksAtEnd(s) == Cardinality({k \in 1..Len(s) : \A m \in k..Len(s) : s[m] = " "})

\* The format of what the call returned: what follows the first underscore
\* is the timestamp of the local time and the extension after a dot, so
\* the name part holds no underscore; the name part holds no capital
\* letter and no blank at either end, and is as long as the trimmed name.
StampFormat ==
    LET name == FirstSegment(stamp.result)
    IN  /\ SuffixKey(stamp.result) =
               StampOf(stamp.d)
               \o (IF stamp.extension = <<>> THEN <<>> ELSE <<".">> \o stamp.extension)
        /\ \A k \in 1..Len(name) : ~(Code(name[k]) >= Code("A") /\ Code(name[k]) <= Code("Z"))
        /\ name # <<>> => (name[1] # " " /\ name[Len(name)] # " ")
        /\ Len(name) = Len(stamp.filename) - BlanksAtStart(stamp.filename)
                       - BlanksAtEnd(stamp.filename)

\* The call of the example: "My Migration", "ts", 2024-05-07 03:04:05.
StampExample ==
    /\ stamp.filename = N_myMigration
    /\ stamp.extension = E_ts
    /\ stamp.d = D_may
    /\ stamp.result # <<>>

\* C13 as stated: the result has the format, and the example yields
\* "my-migration_05-07-2024_030405.ts".
C13_StampAsStated ==
    stamp.result # <<>> =>
        /\ StampFormat
        /\ StampExample =>
               stamp.result =
                   << "m", "y", "-", "m", "i", "g", "r", "a", "t", "i", "o", "n", "_",
                      "0", "5", "-", "0", "7", "-", "2", "0", "2", "4", "_",
                      "0", "3", "0", "4", "0", "5", ".", "t", "s" >>

\* C13 amended: the result has the format, and the example yields
\* "my migration_05-07-2024_030405.ts": the blank inside the name stays.
C13_Stamp ==
    stamp.result # <<>> =>
        /\ StampFormat
        /\ StampExample =>
               stamp.result =
                   << "m", "y", " ", "m", "i", "g", "r", "a", "t", "i", "o", "n", "_",
                      "0", "5", "-", "0", "7", "-", "2", "0", "2", "4", "_",
                      "0", "3", "0", "4", "0", "5", ".", "t", "s" >>

\* The call of the example has returned.
C13_Witness == StampExample

-----------------------------------------------------------------------------
(* C14 *)

\* The number of files of the forward run r whose transform has settled
\* successfully and whose ledger entry, in a run that records, is due before
\* anything else happens in the run.
Settled(r) ==
    IF r.pc = "upRun" \/ r.pc = "upSave" \/ r.why = "up failed"
    THEN Len(r.started) - 1
    ELSE Len(r.started)

\* C14: in a forward run the transforms called so far are the first pending
\* files in order; a transform is in progress only while the run awaits it,
\* and it is the last one called; and in a run that records the ledger is
\* the ledger of the start followed by the entries of the files before the
\* current one: the entry of a file is not there while its transform runs
\* or is awaited to be saved, and the entries of all earlier files are there
\* before the next transform is called.
C14_OneAfterAnother ==
    \A p \in Procs :
        inv[p].action = "up" =>
            LET r == inv[p]
            IN  /\ IsPrefix(r.started, r.toMigrateFiles)
                /\ r.running # <<>> <=> r.pc = "upRun"
                /\ r.pc = "upRun" =>
                       (Len(r.started) = r.i /\ r.running = r.started[r.i])
                /\ r.pc = "upSave" => Len(r.started) = r.i
                /\ r.pc = "upImport" => Len(r.started) = r.i - 1
                /\ ~r.isTest =>
                       ledger = r.ledger0
                                \o EntriesOf(SubSeq(r.started, 1, Settled(r)))

\* The transform of the second file is in progress, in a run that records.
C14_Witness ==
    \E p \in Procs :
        /\ inv[p].action = "up" /\ ~inv[p].isTest
        /\ inv[p].pc = "upRun" /\ inv[p].i = 2
        /\ Len(ledger) = Len(inv[p].ledger0) + 1

-----------------------------------------------------------------------------
(* C15 *)

\* C15: in a reverse run every match taken so far was either skipped,
\* because it has no built module, or had its reverse transform called, and a
\* skipped match does not end the run: a run that went through has taken
\* every match.  A match whose module has no down ends the run with a normal
\* return: that match and the later ones were neither skipped nor executed.
C15_SkipAbsentStopOnMissingDown ==
    \A p \in Procs :
        inv[p].action = "down" =>
            LET r == inv[p]
                taken == Range(r.started) \cup Range(r.unresolved)
                n == Len(r.started) + Len(r.unresolved)
            IN  /\ Range(r.started) \cap Range(r.unresolved) = {}
                /\ r.pc = "downResolve" =>
                       (n = r.i - 1 /\ taken = Range(SubSeq(r.filteredFiles, 1, r.i - 1)))
                /\ r.pc = "downRun" =>
                       (n = r.i /\ taken = Range(SubSeq(r.filteredFiles, 1, r.i)))
                /\ (r.pc = "done" /\ r.why = "completed") =>
                       (n = Len(r.filteredFiles) /\ taken = Range(r.filteredFiles))
                /\ r.why = "down not found" =>
                       /\ r.pc = "done" /\ r.result = "returned"
                       /\ n = r.i - 1
                       /\ taken = Range(SubSeq(r.filteredFiles, 1, r.i - 1))

\* The first match was skipped and the second was reverted, in a run that
\* went through.
C15_Witness ==
    \E p \in Procs :
        /\ inv[p].action = "down" /\ inv[p].pc = "done" /\ inv[p].why = "completed"
        /\ Len(inv[p].filteredFiles) >= 2
        /\ inv[p].unresolved # <<>> /\ inv[p].unresolved[1] = inv[p].filteredFiles[1]
        /\ inv[p].started # <<>> /\ inv[p].started[1] = inv[p].filteredFiles[2]

-----------------------------------------------------------------------------
(* C16 *)

\* The files for which the forward run r has appended a ledger entry.
Appended(r) ==
    IF r.action = "up" /\ ~r.isTest THEN SubSeq(r.started, 1, Settled(r)) ELSE <<>>

\* The number of entries of a ledger with the filename f.
EntriesFor(l, f) == Cardinality({k \in 1..Len(l) : l[k].filename = f})

\* C16: when forward runs overlap, each computes its pending files from
\* the ledger as it read it, and the ledger, empty at the start, holds for
\* every file one entry per run that executed it and recorded it: no run
\* holds back because of another.
C16_NoMutualExclusion ==
    /\ \A p \in Procs :
           inv[p].pc \in {"upImport", "upRun", "upSave"} =>
               Range(inv[p].toMigrateFiles) = inv[p].listed \ Range(inv[p].migratedFilenames)
    /\ \A f \in catalog :
           EntriesFor(ledger, f) =
               Cardinality({p \in Procs : f \in Range(Appended(inv[p]))})

\* Both runs had "b_1.ts" pending, both called its transform and the ledger
\* holds two entries for it.
C16_Witness ==
    /\ \A p \in Procs :
           F_b1 \in Range(inv[p].toMigrateFiles) /\ F_b1 \in Range(inv[p].started)
    /\ EntriesFor(ledger, F_b1) = 2

-----------------------------------------------------------------------------
(* C17 *)

\* C17: a forward run cut short after the transform of a file settled and
\* before its entry was written leaves that file out of the ledger, the files
\* executed before it being recorded; the forward run that follows, once it
\* has read the ledger, has the file pending again and, when it goes through, has called its transform;
\* and no forward run calls the transform of a file recorded at its start.
C17_ReplayAfterCrash ==
    \A p \in Procs :
        inv[p].action = "up" =>
            LET r == inv[p]
            IN  /\ Unsaved(r) # <<>> =>
                       /\ Unsaved(r) = r.started[Len(r.started)]
                       /\ Unsaved(r) \notin LedgerFilenames(ledger)
                       /\ \A k \in 1..(Len(r.started) - 1) :
                              r.started[k] \in LedgerFilenames(ledger)
                /\ (r.replay # <<>> /\ UpUnderWay(p) /\ r.why # "find") =>
                       /\ r.replay \in Range(r.toMigrateFiles)
                       /\ r.why = "completed" => r.replay \in Range(r.started)
                /\ \A k \in 1..Len(r.started) :
                       r.started[k] \notin LedgerFilenames(r.ledger0)

\* The run after the cut executed the file again, and the run that was cut
\* had recorded another file of the folder.
C17_Witness ==
    \E p \in Procs :
        /\ inv[p].action = "up" /\ inv[p].why = "completed"
        /\ inv[p].replay # <<>> /\ inv[p].replay \in Range(inv[p].started)
        /\ LedgerFilenames(inv[p].ledger0) \cap catalog # {}

-----------------------------------------------------------------------------
(* C18 *)

\* C18: an up or down invocation started while the folder of the migration
\* files does not exist ends, once readDir has settled, by throwing the error
\* of readDir; it has not read the ledger, has called no transform and has
\* left the ledger as it was.
C18_AbsentFolderThrows ==
    \A p \in Procs :
        (inv[p].action \in {"up", "down"} /\ ~inv[p].dirExisted /\ inv[p].pc # "readDir") =>
            /\ inv[p].pc = "done"
            /\ inv[p].result = "threw"
            /\ inv[p].why = "ENOENT"
            /\ inv[p].migratedFilenames = <<>>
            /\ inv[p].started = <<>>
            /\ ledger = inv[p].ledger0

\* A down invocation with a token has ended on a missing folder while the
\* ledger holds an entry.
C18_Witness ==
    \E p \in Procs :
        /\ inv[p].action = "down" /\ inv[p].filename # <<>>
        /\ ~inv[p].dirExisted /\ inv[p].pc = "done"
        /\ ledger # <<>>

-----------------------------------------------------------------------------
(* C19 *)

\* C19 as stated: a backup invocation that has ended has launched the dump
\* process, whatever the folder and the ledger hold, has called no transform
\* and has left the ledger as it was.
C19_BackupIndependent ==
    \A p \in Procs :
        (inv[p].action = "backup" /\ inv[p].pc = "done") =>
            /\ inv[p].dump \in DumpEvents
            /\ inv[p].started = <<>>
            /\ ledger = inv[p].ledger0

-----------------------------------------------------------------------------
(* C20 *)

\* The local time at which create made the file.
CreatedAt(file) ==
    CHOOSE d \in CreatedInstants :
        \E name \in CreatedNames : file = MigrationFilename(name, d)

\* The seconds of a local time since 2000, counted so that a later time
\* counts more.
SecondsOf(d) ==
    (((((d.fullYear - 2000) * 12 + d.month) * 31 + d.date) * 24 + d.hours) * 60 + d.minutes) * 60
    + d.seconds

\* C20: of two files made by create at different seconds of the same year,
\* a forward run calls the transform of the one made earlier first, whatever
\* their names.
C20_ChronologicalWithinYear ==
    \A p \in Procs :
        inv[p].action = "up" =>
            \A j, k \in 1..Len(inv[p].started) :
                LET d1 == CreatedAt(inv[p].started[j])
                    d2 == CreatedAt(inv[p].started[k])
                IN  (j < k /\ d1.fullYear = d2.fullYear /\ d1 # d2) =>
                        SecondsOf(d1) < SecondsOf(d2)

\* A forward run executed "db" of September 2024, then "a-b-c" of October 2024,
\* then "db" of December 2023: by time and against the names within 2024,
\* and the oldest file last.
C20_Witness ==
    \E p \in Procs :
        /\ inv[p].action = "up" /\ inv[p].why = "completed"
        /\ inv[p].started = << MigrationFilename(N_db, D_sep),
                               MigrationFilename(N_abc, D_oct),
                               MigrationFilename(N_db, D_dec) >>

=============================================================================
